---- MODULE Spec2Model ----
(***************************************************************************)
(* Model of backend/plugin/parser/mybatis/ast/dymamic_node.go: the dynamic *)
(* SQL nodes of a mybatis mapper (if, choose, when, otherwise, trim,       *)
(* where, set) and their RestoreSQL methods.                               *)
(*                                                                         *)
(* Byte strings are sequences of one-character strings, so that TrimSpace, *)
(* HasPrefix, TrimPrefix, HasSuffix, TrimSuffix and Split are computed, as *)
(* the Go code computes them.  The node store `nodes` is the heap: a node  *)
(* is its index.  RestoreSQL runs as a stack machine, one step per write   *)
(* to a writer, per call of a child and per return, so that the order of   *)
(* the writes and the propagation of a write error are visible.            *)
(***************************************************************************)
EXTENDS Integers, Sequences, FiniteSets, TLC

VARIABLES
    nodes,      \* the heap of nodes: nodes[id] is the node id
    nodeStack,  \* the caller's stack of elements still open during assembly
    stack,      \* the call stack of RestoreSQL frames, the running one last
    sink,       \* the io.Writer the caller handed to the root's RestoreSQL
    result,     \* what the root's RestoreSQL returned: "idle", "running", "nil" or an error
    prev        \* the output of the last restore of the tree that returned nil

vars == <<nodes, nodeStack, stack, sink, result, prev>>

----------------------------------------------------------------------------
\* Bounds of the model.

\* The number of nodes a tree assembled by the caller may have.
MaxNodes == 3

\* The number of children of the root in the trees SpecTrim starts from.
MaxChildren == 2

----------------------------------------------------------------------------
\* Byte strings.

SP == <<" ">>

\* unicode.IsSpace on the characters of the model's alphabet.
Whitespace == {" ", "\t", "\n", "\r", "\f"}

MinOf(S) == CHOOSE x \in S : \A y \in S : x <= y

MaxOf(S) == CHOOSE x \in S : \A y \in S : y <= x

\* strings.TrimSpace
TrimSpace(s) ==
    LET keep == {i \in 1..Len(s) : s[i] \notin Whitespace}
    IN  IF keep = {} THEN <<>> ELSE SubSeq(s, MinOf(keep), MaxOf(keep))

\* strings.HasPrefix
HasPrefix(s, prefix) ==
    /\ Len(s) >= Len(prefix)
    /\ SubSeq(s, 1, Len(prefix)) = prefix

\* strings.TrimPrefix
TrimPrefix(s, prefix) ==
    IF HasPrefix(s, prefix) THEN SubSeq(s, Len(prefix) + 1, Len(s)) ELSE s

\* strings.HasSuffix
HasSuffix(s, suffix) ==
    /\ Len(s) >= Len(suffix)
    /\ SubSeq(s, Len(s) - Len(suffix) + 1, Len(s)) = suffix

\* strings.TrimSuffix
TrimSuffix(s, suffix) ==
    IF HasSuffix(s, suffix) THEN SubSeq(s, 1, Len(s) - Len(suffix)) ELSE s

RECURSIVE Split(_, _)
\* strings.Split(s, sep) for a non-empty sep: the pieces of s between the
\* occurrences of sep; a string without sep (the empty one too) is one piece.
Split(s, sep) ==
    LET at == {i \in 1..Len(s) : HasPrefix(SubSeq(s, i, Len(s)), sep)}
    IN  IF at = {} THEN <<s>>
        ELSE <<SubSeq(s, 1, MinOf(at) - 1)>>
                 \o Split(SubSeq(s, MinOf(at) + Len(sep), Len(s)), sep)

----------------------------------------------------------------------------
\* The nodes.  Every node is a record of the same shape; a field a kind does
\* not have stays empty.  A where or set node owns one trim node (its
\* trimNode field) and nothing else: the record of kind "where" or "set"
\* carries that trim node's fields.

Node(kind) ==
    [kind |-> kind, Test |-> "", Prefix |-> <<>>, Suffix |-> <<>>,
     PrefixOverridesParts |-> <<>>, SuffixOverridesParts |-> <<>>,
     Data |-> <<>>, Children |-> <<>>]

\* NewIfNode: Test is the value of the element's test attribute, "" without one.
NewIfNode(test) == [Node("if") EXCEPT !.Test = test]

NewChooseNode == Node("choose")

\* NewWhenNode: Test is the value of the element's test attribute.
NewWhenNode(test) == [Node("when") EXCEPT !.Test = test]

NewOtherwiseNode == Node("otherwise")

\* newTrimNodeWithAttrs: the two override attributes are split at "|".
newTrimNodeWithAttrs(prefix, suffix, prefixOverrides, suffixOverrides) ==
    [Node("trim") EXCEPT
        !.Prefix = prefix,
        !.Suffix = suffix,
        !.PrefixOverridesParts = Split(prefixOverrides, <<"|">>),
        !.SuffixOverridesParts = Split(suffixOverrides, <<"|">>)]

\* NewTrimNode: attrs holds the values of the element's prefix, suffix,
\* prefixOverrides and suffixOverrides attributes, each empty when absent.
NewTrimNode(attrs) ==
    newTrimNodeWithAttrs(attrs.prefix, attrs.suffix,
                         attrs.prefixOverrides, attrs.suffixOverrides)

WHERE == <<"W", "H", "E", "R", "E">>

SET == <<"S", "E", "T">>

\* NewWhereNode: newTrimNodeWithAttrs("WHERE", "", "AND |OR ", "")
NewWhereNode ==
    [newTrimNodeWithAttrs(WHERE, <<>>,
                          <<"A", "N", "D", " ", "|", "O", "R", " ">>, <<>>)
        EXCEPT !.kind = "where"]

\* NewSetNode: newTrimNodeWithAttrs("SET", "", "", ",")
NewSetNode ==
    [newTrimNodeWithAttrs(SET, <<>>, <<>>, <<",">>) EXCEPT !.kind = "set"]

\* A leaf holding literal text.
NewDataNode(data) == [Node("data") EXCEPT !.Data = data]

DirectiveKinds == {"if", "choose", "when", "otherwise"}

TrimKinds == {"trim", "where", "set"}

\* AddChild of every kind: the child is appended to Children (a where or set
\* node hands it to its trim node, whose Children the record carries).
AppendChild(n, child) == [n EXCEPT !.Children = Append(@, child)]

----------------------------------------------------------------------------
\* The strip loops of TrimNode.RestoreSQL.

RECURSIVE StripEveryPrefixOverride(_, _)
\* The prefix loop without its break: every part is tried in turn.
StripEveryPrefixOverride(trimmed, parts) ==
    IF parts = <<>> THEN trimmed
    ELSE StripEveryPrefixOverride(TrimPrefix(trimmed, Head(parts)), Tail(parts))

\* The prefix loop cutting off the longest part that matches, not the first.
StripLongestPrefixOverride(trimmed, parts) ==
    LET hit == {k \in 1..Len(parts) : HasPrefix(trimmed, parts[k])}
    IN  IF hit = {} THEN trimmed
        ELSE TrimPrefix(trimmed,
                 parts[CHOOSE k \in hit : \A m \in hit : Len(parts[m]) <= Len(parts[k])])

\* for _, part := range n.PrefixOverridesParts: the first part that is a
\* prefix of trimmed is cut off, and the loop breaks.
StripPrefixOverride(trimmed, parts) ==
    LET hit == {k \in 1..Len(parts) : HasPrefix(trimmed, parts[k])}
    IN  IF hit = {} THEN trimmed ELSE TrimPrefix(trimmed, parts[MinOf(hit)])

RECURSIVE StripSuffixOverrideRepeatedly(_, _)
\* The suffix loop cutting the matching part off as long as it matches
\* (strings.TrimRight for strings.TrimSuffix).
StripSuffixOverrideRepeatedly(trimmed, parts) ==
    LET hit == {k \in 1..Len(parts) : HasSuffix(trimmed, parts[k])}
    IN  IF hit = {} \/ parts[MinOf(hit)] = <<>> THEN trimmed
        ELSE StripSuffixOverrideRepeatedly(TrimSuffix(trimmed, parts[MinOf(hit)]), parts)

\* for _, part := range n.SuffixOverridesParts: the first part that is a
\* suffix of trimmed is cut off, and the loop breaks.
StripSuffixOverride(trimmed, parts) ==
    LET hit == {k \in 1..Len(parts) : HasSuffix(trimmed, parts[k])}
    IN  IF hit = {} THEN trimmed ELSE TrimSuffix(trimmed, parts[MinOf(hit)])

----------------------------------------------------------------------------
\* The writers.  Writer 0 is the caller's sink, which may reject any write;
\* writer k > 0 is the strings.Builder of the trim frame stack[k], which
\* accepts every write.

\* The errors a sink returns from a rejected Write.
Errors == {"ErrShortWrite", "ErrClosedPipe"}

FreshSink == [data |-> <<>>, writes |-> 0, err |-> "nil"]

\* prev before any restore has returned nil: no byte string.
NoOutput == <<"(none)">>

\* The statement a call of RestoreSQL starts at, by the kind of its receiver.
InitialPC(kind) ==
    CASE kind \in DirectiveKinds -> "space"
      [] kind = "trim" -> "range"
      [] kind \in {"where", "set"} -> "delegate"
      [] OTHER -> "write"

\* A frame of RestoreSQL(w) on node: pc is the place in the method, i the
\* position of the range loop, stringsBuilder and trimmed the locals of
\* TrimNode.RestoreSQL, err the value being returned.
Frame(node, w) ==
    [node |-> node, w |-> w, pc |-> InitialPC(nodes[node].kind), i |-> 1,
     stringsBuilder |-> <<>>, trimmed |-> <<>>, err |-> "nil"]

Top == Len(stack)

Running == stack /= <<>>

Goto(pc) == [stack EXCEPT ![Top].pc = pc]

\* w.Write(p) by the running frame, which goes on at `next` when err == nil
\* and returns err otherwise.  A rejected write may have taken some of p.
Write(p, next) ==
    LET w == stack[Top].w
    IN  IF w = 0
        THEN \/ /\ sink' = [sink EXCEPT !.data = @ \o p, !.writes = @ + 1]
                /\ stack' = Goto(next)
             \/ \E e \in Errors, taken \in 0..(IF p = <<>> THEN 0 ELSE Len(p) - 1) :
                    /\ sink' = [sink EXCEPT !.data = @ \o SubSeq(p, 1, taken),
                                            !.writes = @ + 1,
                                            !.err = e]
                    /\ stack' = [stack EXCEPT ![Top].pc = "return", ![Top].err = e]
        ELSE /\ stack' = [stack EXCEPT ![w].stringsBuilder = @ \o p,
                                       ![Top].pc = next]
             /\ UNCHANGED sink

At(kinds, pc) ==
    /\ Running
    /\ nodes[stack[Top].node].kind \in kinds
    /\ stack[Top].pc = pc

----------------------------------------------------------------------------
\* RestoreSQL, step by step.  Every step is taken by the running frame.

Self == nodes[stack[Top].node]

\* if len(n.Children) > 0 { w.Write(" ") }
WriteSpace(kind, pc, next) ==
    /\ At({kind}, pc)
    /\ IF Len(Self.Children) > 0
       THEN Write(SP, next)
       ELSE stack' = Goto(next) /\ UNCHANGED sink
    /\ UNCHANGED <<nodes, nodeStack, result, prev>>

\* RangeChildren of a node that takes an empty test for false and skips its
\* children.
RangeChildrenWhenTested(kind) ==
    /\ At({kind}, "range")
    /\ IF stack[Top].i <= Len(Self.Children) /\ ~(kind \in {"if", "when"} /\ Self.Test = "")
       THEN stack' = Append(stack, Frame(Self.Children[stack[Top].i], stack[Top].w))
       ELSE stack' = [stack EXCEPT ![Top].pc = "return", ![Top].err = "nil"]
    /\ UNCHANGED <<nodes, nodeStack, sink, result, prev>>

\* for _, node := range n.Children { node.RestoreSQL(w) }: the call of the
\* next child with the writer of this frame, and return nil after the last.
RangeChildren(kind) ==
    /\ At({kind}, "range")
    /\ IF stack[Top].i <= Len(Self.Children)
       THEN stack' = Append(stack, Frame(Self.Children[stack[Top].i], stack[Top].w))
       ELSE stack' = [stack EXCEPT ![Top].pc = "return", ![Top].err = "nil"]
    /\ UNCHANGED <<nodes, nodeStack, sink, result, prev>>

IfNodeRestoreSQL ==
    \/ WriteSpace("if", "space", "range")
    \/ RangeChildren("if")

ChooseNodeRestoreSQL ==
    \/ WriteSpace("choose", "space", "range")
    \/ RangeChildren("choose")

\* WhenNode.RestoreSQL with one space block, like IfNode.RestoreSQL.
WhenNodeRestoreSQLWithOneSpace ==
    \/ WriteSpace("when", "space", "range")
    \/ RangeChildren("when")

\* WhenNode.RestoreSQL holds the space block twice.
WhenNodeRestoreSQL ==
    \/ WriteSpace("when", "space", "space2")
    \/ WriteSpace("when", "space2", "range")
    \/ RangeChildren("when")

OtherwiseNodeRestoreSQL ==
    \/ WriteSpace("otherwise", "space", "range")
    \/ RangeChildren("otherwise")

\* TrimRangeChildren handing its own writer w to the child, as the directive
\* nodes do, so that the child streams past the builder.
TrimRangeChildrenStreaming ==
    /\ At(TrimKinds, "range")
    /\ IF stack[Top].i <= Len(Self.Children)
       THEN stack' = Append(stack, Frame(Self.Children[stack[Top].i], stack[Top].w))
       ELSE stack' = Goto("trim")
    /\ UNCHANGED <<nodes, nodeStack, sink, result, prev>>

\* for _, node := range n.Children { node.RestoreSQL(&stringsBuilder) }: the
\* child writes to the builder of this frame.
TrimRangeChildren ==
    /\ At(TrimKinds, "range")
    /\ IF stack[Top].i <= Len(Self.Children)
       THEN stack' = Append(stack, Frame(Self.Children[stack[Top].i], Top))
       ELSE stack' = Goto("trim")
    /\ UNCHANGED <<nodes, nodeStack, sink, result, prev>>

\* TrimOverrides without the return for an empty trimmed.
TrimOverridesWithoutEarlyReturn ==
    /\ At(TrimKinds, "trim")
    /\ stack' = [stack EXCEPT
           ![Top].pc = "prefix",
           ![Top].trimmed =
               StripSuffixOverride(
                   StripPrefixOverride(TrimSpace(stack[Top].stringsBuilder),
                                       Self.PrefixOverridesParts),
                   Self.SuffixOverridesParts)]
    /\ UNCHANGED <<nodes, nodeStack, sink, result, prev>>

\* TrimOverrides trimming the whitespace again after the strip loops.
TrimOverridesTrimmedAgain ==
    /\ At(TrimKinds, "trim")
    /\ LET trimmed == TrimSpace(stack[Top].stringsBuilder)
       IN  IF Len(trimmed) = 0
           THEN stack' = [stack EXCEPT ![Top].pc = "return", ![Top].err = "nil"]
           ELSE stack' = [stack EXCEPT
                    ![Top].pc = "prefix",
                    ![Top].trimmed =
                        TrimSpace(StripSuffixOverride(
                            StripPrefixOverride(trimmed, Self.PrefixOverridesParts),
                            Self.SuffixOverridesParts))]
    /\ UNCHANGED <<nodes, nodeStack, sink, result, prev>>

\* trimmed := strings.TrimSpace(stringsBuilder.String()); return nil when it
\* is empty; else the two strip loops.
TrimOverrides ==
    /\ At(TrimKinds, "trim")
    /\ LET trimmed == TrimSpace(stack[Top].stringsBuilder)
       IN  IF Len(trimmed) = 0
           THEN stack' = [stack EXCEPT ![Top].pc = "return", ![Top].err = "nil"]
           ELSE stack' = [stack EXCEPT
                    ![Top].pc = "prefix",
                    ![Top].trimmed =
                        StripSuffixOverride(
                            StripPrefixOverride(trimmed, Self.PrefixOverridesParts),
                            Self.SuffixOverridesParts)]
    /\ UNCHANGED <<nodes, nodeStack, sink, result, prev>>

\* if len(text) > 0 { w.Write(" "); w.Write(text) }: one of the three write
\* blocks, from pc to next; the text is written at pc2.
WriteBlock(text, pc, pc2, next) ==
    /\ \/ /\ At(TrimKinds, pc)
          /\ IF Len(text) > 0
             THEN Write(SP, pc2)
             ELSE stack' = Goto(next) /\ UNCHANGED sink
       \/ /\ At(TrimKinds, pc2)
          /\ Write(text, next)
    /\ UNCHANGED <<nodes, nodeStack, result, prev>>

\* TrimWritePrefix putting the space into n.Prefix, not into the writer.
TrimWritePrefixIntoNode ==
    \/ /\ At(TrimKinds, "prefix")
       /\ nodes' = [nodes EXCEPT ![stack[Top].node].Prefix =
                        IF Len(@) > 0 THEN <<" ">> \o @ ELSE @]
       /\ stack' = Goto(IF Len(Self.Prefix) > 0 THEN "prefix2" ELSE "content")
       /\ UNCHANGED <<nodeStack, sink, result, prev>>
    \/ /\ At(TrimKinds, "prefix2")
       /\ Write(Self.Prefix, "content")
       /\ UNCHANGED <<nodes, nodeStack, result, prev>>

TrimWritePrefix == WriteBlock(Self.Prefix, "prefix", "prefix2", "content")

TrimWriteContent == WriteBlock(stack[Top].trimmed, "content", "content2", "suffix")

TrimWriteSuffix == WriteBlock(Self.Suffix, "suffix", "suffix2", "done")

\* return nil at the end of TrimNode.RestoreSQL
TrimReturnNil ==
    /\ At(TrimKinds, "done")
    /\ stack' = [stack EXCEPT ![Top].pc = "return", ![Top].err = "nil"]
    /\ UNCHANGED <<nodes, nodeStack, sink, result, prev>>

TrimNodeRestoreSQL ==
    \/ TrimRangeChildren
    \/ TrimOverrides
    \/ TrimWritePrefix
    \/ TrimWriteContent
    \/ TrimWriteSuffix
    \/ TrimReturnNil

\* return n.trimNode.RestoreSQL(w): the trim node runs with the same writer,
\* and what it returns is returned.
Delegate(kind) ==
    /\ At({kind}, "delegate")
    /\ stack' = Goto("range")
    /\ UNCHANGED <<nodes, nodeStack, sink, result, prev>>

WhereNodeRestoreSQL == Delegate("where")

SetNodeRestoreSQL == Delegate("set")

\* The leaf writes its text to the writer it is given, in one Write.
DataNodeRestoreSQL ==
    /\ At({"data"}, "write")
    /\ Write(Self.Data, "return")
    /\ UNCHANGED <<nodes, nodeStack, result, prev>>

\* Return to a caller that drops the err of a child and goes on.
ReturnToCallerDroppingErr ==
    /\ Running
    /\ stack[Top].pc = "return"
    /\ LET err == stack[Top].err
       IN  IF Top = 1
           THEN /\ stack' = <<>>
                /\ result' = err
                /\ prev' = IF err = "nil" THEN sink.data ELSE prev
           ELSE /\ stack' = [SubSeq(stack, 1, Top - 1) EXCEPT ![Top - 1].i = @ + 1]
                /\ UNCHANGED <<result, prev>>
    /\ UNCHANGED <<nodes, nodeStack, sink>>

\* A frame returns err to its caller.  A caller in a range loop returns a
\* non-nil err at once (if err != nil { return err }) and goes on to the next
\* child otherwise; the root's caller gets the result of the restore.
Return ==
    /\ Running
    /\ stack[Top].pc = "return"
    /\ LET err == stack[Top].err
       IN  IF Top = 1
           THEN /\ stack' = <<>>
                /\ result' = err
                /\ prev' = IF err = "nil" THEN sink.data ELSE prev
           ELSE /\ stack' = [SubSeq(stack, 1, Top - 1) EXCEPT
                                ![Top - 1].i = IF err = "nil" THEN @ + 1 ELSE @,
                                ![Top - 1].pc = IF err = "nil" THEN @ ELSE "return",
                                ![Top - 1].err = err]
                /\ UNCHANGED <<result, prev>>
    /\ UNCHANGED <<nodes, nodeStack, sink>>

----------------------------------------------------------------------------
\* The caller.  It assembles one tree out of the elements of the mapper, an
\* element's node being added to its parent when the element ends, and then
\* restores the root, any number of times, each time into a fresh sink.

TestExprs == {"", "id != null"}

Attrs(prefix, suffix, prefixOverrides, suffixOverrides) ==
    [prefix |-> prefix, suffix |-> suffix,
     prefixOverrides |-> prefixOverrides, suffixOverrides |-> suffixOverrides]

\* The attributes of the trim elements of the assembled trees.
TrimAttrs ==
    {Attrs(<<"(">>, <<")">>, <<"x">>, <<"y", "|", "x">>)}

\* The texts of the leaves of the assembled trees.
DataTexts == {<<"x">>, <<" ", "O", "R", " ", "y", ",">>}

Assembling == result = "idle"

CanOpen ==
    /\ Assembling
    /\ Len(nodes) < MaxNodes
    /\ nodeStack = <<>> => nodes = <<>>
    /\ nodeStack /= <<>> => nodes[nodeStack[Len(nodeStack)]].kind /= "data"

\* The caller makes the node of an element that starts.
Open(n) ==
    /\ CanOpen
    /\ nodes' = Append(nodes, n)
    /\ nodeStack' = Append(nodeStack, Len(nodes) + 1)
    /\ UNCHANGED <<stack, sink, result, prev>>

StartIf == \E test \in TestExprs : Open(NewIfNode(test))

StartChoose == Open(NewChooseNode)

StartWhen == \E test \in TestExprs : Open(NewWhenNode(test))

StartOtherwise == Open(NewOtherwiseNode)

StartTrim == \E attrs \in TrimAttrs : Open(NewTrimNode(attrs))

StartWhere == Open(NewWhereNode)

StartSet == Open(NewSetNode)

CharData == \E data \in DataTexts : Open(NewDataNode(data))

\* parent.AddChild(child) when the element of child ends.
AddChild ==
    /\ Assembling
    /\ Len(nodeStack) >= 2
    /\ LET child == nodeStack[Len(nodeStack)]
           parent == nodeStack[Len(nodeStack) - 1]
       IN  nodes' = [nodes EXCEPT ![parent] = AppendChild(@, child)]
    /\ nodeStack' = SubSeq(nodeStack, 1, Len(nodeStack) - 1)
    /\ UNCHANGED <<stack, sink, result, prev>>

Root == nodeStack[1]

\* root.RestoreSQL(w) with a fresh w, on the assembled tree.
RestoreSQL ==
    /\ ~Running
    /\ Len(nodeStack) = 1
    /\ stack' = <<Frame(Root, 0)>>
    /\ sink' = FreshSink
    /\ result' = "running"
    /\ UNCHANGED <<nodes, nodeStack, prev>>

Assemble ==
    \/ StartIf
    \/ StartChoose
    \/ StartWhen
    \/ StartOtherwise
    \/ StartTrim
    \/ StartWhere
    \/ StartSet
    \/ CharData
    \/ AddChild

Restore ==
    \/ RestoreSQL
    \/ IfNodeRestoreSQL
    \/ ChooseNodeRestoreSQL
    \/ WhenNodeRestoreSQL
    \/ OtherwiseNodeRestoreSQL
    \/ TrimNodeRestoreSQL
    \/ WhereNodeRestoreSQL
    \/ SetNodeRestoreSQL
    \/ DataNodeRestoreSQL
    \/ Return

Init ==
    /\ nodes = <<>>
    /\ nodeStack = <<>>
    /\ stack = <<>>
    /\ sink = FreshSink
    /\ result = "idle"
    /\ prev = NoOutput

Next == Assemble \/ Restore

Spec == Init /\ [][Next]_vars

----------------------------------------------------------------------------
\* Restores of given trees.  The caller has assembled a root with up to
\* MaxChildren children, each a leaf or a directive node over one leaf, and
\* restores it.  A case is a root and the children it may be given.

AndToken == <<"A", "N", "D", " ">>

OrToken == <<"O", "R", " ">>

\* " AND a = 1 AND b = 2"
WhereText ==
    <<" ", "A", "N", "D", " ", "a", " ", "=", " ", "1", " ",
      "A", "N", "D", " ", "b", " ", "=", " ", "2">>

\* " a = 1, b = 2,"
SetText ==
    <<" ", "a", " ", "=", " ", "1", ",", " ", "b", " ", "=", " ", "2", ",">>

\* "x = 1"
XText == <<"x", " ", "=", " ", "1">>

\* "y = 2"
YText == <<"y", " ", "=", " ", "2">>

Leaves(texts) == {<<NewDataNode(t)>> : t \in texts}

Over(parents, texts) == {<<p, NewDataNode(t)>> : p \in parents, t \in texts}

WhereCase ==
    [root |-> {NewWhereNode},
     items |-> Leaves({<<" ">>, <<"\n">>, <<"a">>, AndToken, OrToken,
                       OrToken \o <<"a">>, WhereText})
               \cup Over({NewIfNode("id != null")}, {AndToken})
               \cup Over({NewWhenNode("")}, {<<" ">>})
               \cup {<<NewChooseNode>>}]

SetCase ==
    [root |-> {NewSetNode},
     items |-> Leaves({<<" ">>, <<",">>, <<"a">>, SetText})
               \cup Over({NewOtherwiseNode}, {<<",">>})]

TokenCase ==
    [root |-> {NewTrimNode(Attrs(<<>>, <<>>, <<"A", "|", "A", "B">>, <<>>)),
               NewTrimNode(Attrs(<<>>, <<>>, <<"A", "|", "A", "B">>,
                                 <<"c", "|", "B", "c">>))},
     items |-> Leaves({<<" ">>, <<"A">>, <<"B">>, <<"c">>, <<"A", "B", "c">>})]

WrapCase ==
    [root |-> {NewTrimNode(Attrs(<<"(">>, <<")">>, <<>>, <<>>)),
               NewTrimNode(Attrs(<<>>, <<")">>, <<"x">>, <<"x">>)),
               NewTrimNode(Attrs(<<"(">>, <<>>, <<"|", "x">>, <<"y", "|">>))},
     items |-> Leaves({<<"\t">>, <<"x">>, <<"y">>})
               \cup {<<NewIfNode("")>>}]

DirectiveCase ==
    [root |-> {NewIfNode(t) : t \in TestExprs} \cup {NewWhenNode(t) : t \in TestExprs}
              \cup {NewChooseNode, NewOtherwiseNode},
     items |-> Leaves({XText, YText})
               \cup Over({NewWhenNode(t) : t \in TestExprs}, {YText})
               \cup Over({NewOtherwiseNode}, {XText})
               \cup Over({NewWhereNode}, {AndToken \o <<"x">>})
               \cup {<<NewIfNode(t)>> : t \in TestExprs}]

Cases == {WhereCase, SetCase, TokenCase, WrapCase, DirectiveCase}

\* The heap after root.AddChild(item[1]), and item[1].AddChild(item[2])
\* before it when the item has a leaf.
Grow(ns, item) ==
    LET c == Len(ns) + 1
    IN  IF Len(item) = 1
        THEN [Append(ns, item[1]) EXCEPT ![1] = AppendChild(@, c)]
        ELSE [Append(Append(ns, item[1]), item[2]) EXCEPT
                 ![c] = AppendChild(@, c + 1),
                 ![1] = AppendChild(@, c)]

RECURSIVE Tree(_, _)
Tree(root, items) ==
    IF items = <<>> THEN <<root>>
    ELSE Grow(Tree(root, SubSeq(items, 1, Len(items) - 1)), items[Len(items)])

InitTrees ==
    /\ \E case \in Cases, k \in 0..MaxChildren :
           \E root \in case.root, items \in [1..k -> case.items] :
               nodes = Tree(root, items)
    /\ nodeStack = <<1>>
    /\ stack = <<>>
    /\ sink = FreshSink
    /\ result = "idle"
    /\ prev = NoOutput

SpecTrees == InitTrees /\ [][Restore]_vars

----------------------------------------------------------------------------
\* What the claims are stated with: the text a tree is meant to restore to,
\* written down from the description of the nodes and independently of the
\* steps above.

Blank == {" ", "\t", "\n", "\r", "\f"}

RECURSIVE DropBlanks(_)
DropBlanks(s) ==
    IF s /= <<>> /\ Head(s) \in Blank THEN DropBlanks(Tail(s)) ELSE s

Reversed(s) == [i \in 1..Len(s) |-> s[Len(s) + 1 - i]]

\* s without its leading and trailing whitespace
Trimmed(s) == Reversed(DropBlanks(Reversed(DropBlanks(s))))

Starts(s, tok) ==
    /\ Len(tok) <= Len(s)
    /\ \A i \in 1..Len(tok) : s[i] = tok[i]

Ends(s, tok) == Starts(Reversed(s), Reversed(tok))

Drop(s, k) == SubSeq(s, k + 1, Len(s))

Take(s, k) == SubSeq(s, 1, k)

RECURSIVE CutFirst(_, _)
\* s without the first token of toks, in their order, that it starts with
CutFirst(s, toks) ==
    IF toks = <<>> THEN s
    ELSE IF Starts(s, Head(toks)) THEN Drop(s, Len(Head(toks)))
    ELSE CutFirst(s, Tail(toks))

RECURSIVE CutLast(_, _)
\* s without the first token of toks, in their order, that it ends with
CutLast(s, toks) ==
    IF toks = <<>> THEN s
    ELSE IF Ends(s, Head(toks)) THEN Take(s, Len(s) - Len(Head(toks)))
    ELSE CutLast(s, Tail(toks))

Spaces(k) == [i \in 1..k |-> " "]

\* one space and text, or nothing when text is empty
Spaced(text) == IF text = <<>> THEN <<>> ELSE <<" ">> \o text

Framed(prefix, content, suffix) ==
    Spaced(prefix) \o Spaced(content) \o Spaced(suffix)

\* the number of spaces a directive node writes before its children
LeadingSpaces(n) ==
    IF n.Children = <<>> THEN 0 ELSE IF n.kind = "when" THEN 2 ELSE 1

RECURSIVE Expected(_, _), ExpectedAll(_, _)
\* the text node id of the heap ns restores to
Expected(ns, id) ==
    LET n == ns[id]
        text == ExpectedAll(ns, n.Children)
    IN  CASE n.kind = "data" -> n.Data
          [] n.kind \in DirectiveKinds -> Spaces(LeadingSpaces(n)) \o text
          [] OTHER ->
                IF Trimmed(text) = <<>> THEN <<>>
                ELSE Framed(n.Prefix,
                            CutLast(CutFirst(Trimmed(text), n.PrefixOverridesParts),
                                    n.SuffixOverridesParts),
                            n.Suffix)

\* the texts of the nodes ids, one after the other
ExpectedAll(ns, ids) ==
    IF ids = <<>> THEN <<>>
    ELSE Expected(ns, Head(ids)) \o ExpectedAll(ns, Tail(ids))

\* the root's restore returned nil
Restored == result = "nil" /\ ~Running

RootNode == nodes[Root]

\* what the children of the root render, one after the other
ChildText == ExpectedAll(nodes, RootNode.Children)

----------------------------------------------------------------------------
\* The claims about a clause-trim root, under SpecTrees.

\* " WHERE a = 1 AND b = 2"
WhereRestored ==
    <<" ", "W", "H", "E", "R", "E", " ", "a", " ", "=", " ", "1", " ",
      "A", "N", "D", " ", "b", " ", "=", " ", "2">>

\* " SET a = 1, b = 2"
SetRestored ==
    <<" ", "S", "E", "T", " ", "a", " ", "=", " ", "1", ",", " ",
      "b", " ", "=", " ", "2">>

WhereRoot == Restored /\ RootNode.kind = "where"

SetRoot == Restored /\ RootNode.kind = "set"

\* C1, as amended: a where node whose children render " AND a = 1 AND b = 2"
\* restores to " WHERE a = 1 AND b = 2", the keyword after one space; and
\* whenever the trimmed text of the children starts with "AND " or "OR ", the
\* node restores to " WHERE ", and the trimmed text without that one leading
\* token, every later AND or OR in it kept.
C1_WhereStripsOneLeadingToken ==
    WhereRoot =>
        /\ ChildText = WhereText => sink.data = WhereRestored
        /\ \A tok \in {AndToken, OrToken} :
               Starts(Trimmed(ChildText), tok) =>
                   sink.data = <<" ">> \o WHERE \o <<" ">>
                                   \o Drop(Trimmed(ChildText), Len(tok))

\* a where node has restored " AND a = 1 AND b = 2"
C1_Witness ==
    /\ WhereRoot
    /\ ChildText = WhereText
    /\ sink.data = WhereRestored

\* C1, as claimed: the restored text is "WHERE a = 1 AND b = 2", and in
\* general the keyword, a space and the text without its leading token.
C1_AsClaimed ==
    WhereRoot =>
        /\ ChildText = WhereText => sink.data = Drop(WhereRestored, 1)
        /\ \A tok \in {AndToken, OrToken} :
               Starts(Trimmed(ChildText), tok) =>
                   sink.data = WHERE \o <<" ">> \o Drop(Trimmed(ChildText), Len(tok))

\* C2, as amended: a set node whose children render " a = 1, b = 2," restores
\* to " SET a = 1, b = 2", the keyword after one space; and whenever the
\* trimmed text of the children ends with ",", the node restores to " SET"
\* and, after one more space when it is not empty, the trimmed text without
\* that one trailing comma, every other comma kept.
C2_SetStripsOneTrailingComma ==
    SetRoot =>
        /\ ChildText = SetText => sink.data = SetRestored
        /\ Ends(Trimmed(ChildText), <<",">>) =>
               sink.data = <<" ">> \o SET
                               \o Spaced(Take(Trimmed(ChildText),
                                              Len(Trimmed(ChildText)) - 1))

\* a set node has restored " a = 1, b = 2,"
C2_Witness ==
    /\ SetRoot
    /\ ChildText = SetText
    /\ sink.data = SetRestored

\* C2, as claimed: the restored text is "SET a = 1, b = 2", and in general
\* the keyword and the text without its trailing comma.
C2_AsClaimed ==
    SetRoot =>
        /\ ChildText = SetText => sink.data = Drop(SetRestored, 1)
        /\ Ends(Trimmed(ChildText), <<",">>) =>
               sink.data = SET \o Spaced(Take(Trimmed(ChildText),
                                              Len(Trimmed(ChildText)) - 1))

\* C3: a trim, where or set node whose children render nothing or only
\* whitespace never writes to the sink, whatever its prefix, suffix and
\* tokens are, and its restore returns nil.
C3_BlankClauseWritesNothing ==
    (nodeStack /= <<>> /\ RootNode.kind \in TrimKinds /\ Trimmed(ChildText) = <<>>) =>
        /\ sink = FreshSink
        /\ result \in {"idle", "running", "nil"}
        /\ (~Running /\ result /= "idle") => result = "nil"

\* a node with a prefix, whose children rendered whitespace, has returned
C3_Witness ==
    /\ Restored
    /\ RootNode.kind \in TrimKinds
    /\ RootNode.Prefix /= <<>>
    /\ ChildText /= <<>>
    /\ Trimmed(ChildText) = <<>>
    /\ sink = FreshSink

\* tok is toks[i], and no token before it matches; i = 0: no token matches
FirstMatch(toks, i, Matches(_)) ==
    /\ i > 0 => Matches(toks[i])
    /\ \A k \in 1..Len(toks) : (i = 0 \/ k < i) => ~Matches(toks[k])

TokenAt(toks, i) == IF i = 0 THEN <<>> ELSE toks[i]

\* C4: what a trim node writes between its prefix and its suffix is the
\* trimmed text of its children without one token at most at each end: the
\* first prefix token, in the configured order, that the text starts with,
\* and the first suffix token that the rest ends with.  Tokens "A", "AB" and
\* the text "ABc" give "Bc".
C4_FirstMatchingTokenOnly ==
    (Restored /\ RootNode.kind \in TrimKinds /\ Trimmed(ChildText) /= <<>>) =>
        LET n == RootNode
            t == Trimmed(ChildText)
        IN  /\ \E i \in 0..Len(n.PrefixOverridesParts), j \in 0..Len(n.SuffixOverridesParts) :
                   LET rest == Drop(t, Len(TokenAt(n.PrefixOverridesParts, i)))
                       s == TokenAt(n.SuffixOverridesParts, j)
                   IN  /\ FirstMatch(n.PrefixOverridesParts, i, LAMBDA tok : Starts(t, tok))
                       /\ FirstMatch(n.SuffixOverridesParts, j, LAMBDA tok : Ends(rest, tok))
                       /\ sink.data = Framed(n.Prefix, Take(rest, Len(rest) - Len(s)), n.Suffix)
            /\ ( /\ n.PrefixOverridesParts = << <<"A">>, <<"A", "B">> >>
                 /\ n.SuffixOverridesParts = << <<>> >>
                 /\ t = <<"A", "B", "c">> )
               => sink.data = Spaced(<<"B", "c">>)

\* tokens "A", "AB" have met the text "ABc"
C4_Witness ==
    /\ Restored
    /\ RootNode.PrefixOverridesParts = << <<"A">>, <<"A", "B">> >>
    /\ RootNode.SuffixOverridesParts = << <<>> >>
    /\ Trimmed(ChildText) = <<"A", "B", "c">>
    /\ sink.data = <<" ", "B", "c">>

\* the content a trim node writes for the trimmed text t of its children
Content(n, t) == CutLast(CutFirst(t, n.PrefixOverridesParts), n.SuffixOverridesParts)

\* C9: a trim node whose children render more than whitespace writes a space
\* and its prefix when it has one, then a space and the stripped content when
\* there is some, then a space and its suffix when it has one, and nothing
\* else; the content is written as stripped, its own whitespace kept.
C9_PrefixContentSuffix ==
    (Restored /\ RootNode.kind \in TrimKinds /\ Trimmed(ChildText) /= <<>>) =>
        LET n == RootNode
            content == Content(n, Trimmed(ChildText))
        IN  /\ sink.data = Spaced(n.Prefix) \o Spaced(content) \o Spaced(n.Suffix)
            /\ sink.writes =
                   2 * Cardinality({k \in 1..3 : <<n.Prefix, content, n.Suffix>>[k] /= <<>>})

\* a node with a prefix has written content that starts or ends with whitespace
C9_Witness ==
    /\ Restored
    /\ RootNode.kind \in TrimKinds
    /\ RootNode.Prefix /= <<>>
    /\ Trimmed(ChildText) /= <<>>
    /\ Content(RootNode, Trimmed(ChildText)) /= <<>>
    /\ Trimmed(Content(RootNode, Trimmed(ChildText))) /= Content(RootNode, Trimmed(ChildText))
    /\ sink.writes = 4

\* C10, as claimed: a where or set node writes nothing, or its keyword (after
\* the space of C9), one space and content that is not empty.
C10_KeywordNeverBare ==
    (Restored /\ RootNode.kind \in {"where", "set"}) =>
        \/ sink.data = <<>>
        \/ \E lead \in {<<>>, <<" ">>} :
               /\ Starts(sink.data, lead \o RootNode.Prefix \o <<" ">>)
               /\ Len(sink.data) > Len(lead) + Len(RootNode.Prefix) + 1

----------------------------------------------------------------------------
\* The claims about directive nodes, under SpecTrees.

\* C5: a directive node writes k spaces and then what its children write, in
\* the order they were added: nothing at all without children, one space for
\* an if, choose or otherwise node, two for a when node.  An if node over
\* "x = 1" restores to " x = 1", a when node over "y = 2" to "  y = 2".
C5_SpacesThenChildren ==
    (Restored /\ RootNode.kind \in DirectiveKinds) =>
        LET n == RootNode
            k == CASE n.Children = <<>> -> 0
                   [] n.Children /= <<>> /\ n.kind = "when" -> 2
                   [] OTHER -> 1
            only(text) == Len(n.Children) = 1 /\ nodes[n.Children[1]] = NewDataNode(text)
        IN  /\ sink.data = Spaces(k) \o ChildText
            /\ n.Children = <<>> => sink = FreshSink
            /\ (n.kind = "if" /\ only(XText)) => sink.data = <<" ">> \o XText
            /\ (n.kind = "when" /\ only(YText)) => sink.data = <<" ", " ">> \o YText

\* a when node over "y = 2" has restored to "  y = 2"
C5_Witness ==
    /\ Restored
    /\ RootNode.kind = "when"
    /\ Len(RootNode.Children) = 1
    /\ nodes[RootNode.Children[1]] = NewDataNode(YText)
    /\ sink.data = <<" ", " ", "y", " ", "=", " ", "2">>

\* the heap with every test expression forgotten
WithoutTests(ns) == [id \in DOMAIN ns |-> [ns[id] EXCEPT !.Test = ""]]

\* C6: what a tree restores to is what the tree without its test expressions
\* restores to, so that two trees that differ in their test expressions only
\* restore to the same text; and a choose node restores to a space and the
\* text of every one of its children, in their order.
C6_TestsIgnored ==
    Restored =>
        /\ sink.data = Expected(WithoutTests(nodes), Root)
        /\ (RootNode.kind = "choose" /\ RootNode.Children /= <<>>) =>
               sink.data = <<" ">> \o ExpectedAll(WithoutTests(nodes), RootNode.Children)

\* a choose node over a when node with a test and an otherwise node, each
\* over a leaf, has restored to the text of both
C6_Witness ==
    /\ Restored
    /\ RootNode.kind = "choose"
    /\ Len(RootNode.Children) = 2
    /\ nodes[RootNode.Children[1]].kind = "when"
    /\ nodes[RootNode.Children[1]].Test /= ""
    /\ nodes[RootNode.Children[1]].Children /= <<>>
    /\ nodes[RootNode.Children[2]].kind = "otherwise"
    /\ nodes[RootNode.Children[2]].Children /= <<>>
    /\ sink.data = <<" ", " ", " ">> \o YText \o <<" ">> \o XText

----------------------------------------------------------------------------
\* The claims about every restore of an assembled tree, under Spec.

\* C7: after the sink has rejected a write, the running restore writes to it
\* no more; and the restore returns the error of the rejected write, and nil
\* when no write was rejected.
C7_WriteErrorReturnedAtOnce ==
    /\ []((~Running /\ result /= "idle") => result = sink.err)
    /\ [][(Running /\ sink.err /= "nil") => sink' = sink]_vars

\* a restore has returned the error of its second write, with text left to write
C7_Witness ==
    /\ ~Running
    /\ result \in Errors
    /\ result = sink.err
    /\ sink.writes = 2
    /\ Len(sink.data) < Len(Expected(nodes, Root)) - 1

\* the root's restore is about to return nil
Returning ==
    /\ Running
    /\ Top = 1
    /\ stack[1].pc = "return"
    /\ stack[1].err = "nil"

\* C8: no step of a restore changes a node, and a restore of a tree that
\* returns nil has written what the restore before it wrote.
C8_ReadOnlyAndRepeatable ==
    /\ []((Returning /\ prev /= NoOutput) => sink.data = prev)
    /\ [][(Running \/ Running') => nodes' = nodes]_vars

\* a trim node over a trim node has been restored a second time, to the same text
C8_Witness ==
    /\ Returning
    /\ prev /= NoOutput
    /\ sink.data = prev
    /\ sink.data /= <<>>
    /\ RootNode.kind \in TrimKinds
    /\ \E c \in 1..Len(RootNode.Children) : nodes[RootNode.Children[c]].kind \in TrimKinds

----------------------------------------------------------------------------
\* Restores in which a child may fail by itself.  A strings.Builder rejects
\* no write, so that the err of TrimNode.RestoreSQL's range loop is never
\* that of a write; it is the err of a child whose RestoreSQL fails for a
\* reason of its own, here a leaf.

\* The errors a leaf returns by itself.
LeafErrors == {"ErrRestore"}

\* The leaf returns an error and writes nothing.
DataNodeRestoreSQLFails ==
    /\ At({"data"}, "write")
    /\ \E e \in LeafErrors :
           stack' = [stack EXCEPT ![Top].pc = "return", ![Top].err = e]
    /\ UNCHANGED <<nodes, nodeStack, sink, result, prev>>

NextWithFailingLeaves == Next \/ DataNodeRestoreSQLFails

SpecWithFailingLeaves == Init /\ [][NextWithFailingLeaves]_vars

\* what has been written to writer w, in the stack st with the sink sk
Written(st, sk, w) == IF w = 0 THEN sk ELSE st[w].stringsBuilder

\* the frame stack[k] is a call of RestoreSQL on a trim, where or set node
TrimFrame(k) == nodes[stack[k].node].kind \in TrimKinds

\* every call below the call stack[k] writes to a builder of stack[k] or of
\* a call within it
WritesWithin(k) == \A j \in (k + 1)..Len(stack) : stack[j].w \in k..(j - 1)

\* every call below the call stack[k] writes to the builder of stack[k]
WritesInto(k) == \A j \in (k + 1)..Len(stack) : stack[j].w = k

\* the writer of a trim call is written to by that call alone, after its last
\* child has returned nil
OwnWriterAfterChildren ==
    \A k \in 1..Len(stack) :
        (TrimFrame(k)
             /\ Written(stack', sink', stack[k].w) /= Written(stack, sink, stack[k].w))
            => /\ Top = k
               /\ stack[k].i > Len(nodes[stack[k].node].Children)
               /\ stack[k].err = "nil"

\* a trim call whose child returns an error returns that error next
ChildErrorReturned ==
    \A k \in 1..(Len(stack) - 1) :
        (TrimFrame(k) /\ Top = k + 1
             /\ stack[Top].pc = "return" /\ stack[Top].err /= "nil")
            => /\ Len(stack') = k
               /\ stack'[k].pc = "return"
               /\ stack'[k].err = stack[Top].err
               /\ sink' = sink

\* a trim root leaves the sink as it was until its last child has returned,
\* and for good when a child fails, whose error the restore returns
RootWritesNothingEarly ==
    (nodeStack /= <<>> /\ RootNode.kind \in TrimKinds) =>
        /\ (Running /\ stack[1].i <= Len(RootNode.Children)) => sink = FreshSink
        /\ (~Running /\ result \in LeafErrors) => sink = FreshSink
        /\ (~Running /\ result \in Errors) => result = sink.err

\* C11, as amended: while a trim, where or set node is restored, every call
\* below it writes to the node's builder or to the builder of a trim node
\* nested in it, never to the node's own writer; the node's own writer is
\* written to by the node alone, after its last child has returned nil; and
\* when a child returns an error, the node returns that error next, having
\* written nothing.
C11_TrimBuffersBeforeItWrites ==
    /\ [](\A k \in 1..Len(stack) : TrimFrame(k) => WritesWithin(k))
    /\ [][OwnWriterAfterChildren]_vars
    /\ [][ChildErrorReturned]_vars
    /\ []RootWritesNothingEarly

\* C11, as claimed: every call below the node, those below a trim node nested
\* in it too, writes to the builder of the node itself.
C11_AsClaimed ==
    /\ [](\A k \in 1..Len(stack) : TrimFrame(k) => WritesInto(k))
    /\ [][OwnWriterAfterChildren]_vars
    /\ [][ChildErrorReturned]_vars
    /\ []RootWritesNothingEarly

\* a trim node over a directive node over a leaf has returned the error of
\* the leaf, the sink untouched
C11_Witness ==
    /\ ~Running
    /\ result \in LeafErrors
    /\ RootNode.kind \in TrimKinds
    /\ RootNode.Prefix /= <<>>
    /\ sink = FreshSink
    /\ Len(RootNode.Children) = 1
    /\ nodes[RootNode.Children[1]].kind \in DirectiveKinds
    /\ nodes[RootNode.Children[1]].Children /= <<>>

====
